---- MODULE Spec2Model ----
(***************************************************************************)
(* A model of the MIEP interpreter (miep.go).  The interpreter has no      *)
(* parser stage: the cursor (s, pos) into the program text is the program  *)
(* counter, and every statement re-scans the text.  The model keeps the    *)
(* program text as a string and re-scans it in the same way.               *)
(*                                                                         *)
(* An interpreter value m is a record with the fields of MiepInterpreter   *)
(* plus the process's standard input and output and its control point pc.  *)
(* Every method of the interpreter is an operator from m to the m it       *)
(* leaves behind (with the returned value, when it returns one).           *)
(***************************************************************************)
EXTENDS Integers, Sequences, FiniteSets, TLC

VARIABLES src,        \* the source file named on the command line
          variables,  \* [26]int16
          memory,     \* [65536]byte, kept as the cells that were written
          pbuff,      \* program buffer
          psize,      \* program size
          s,          \* current parsing string
          pos,        \* current position in s
          ln,         \* current line number
          stack,      \* runtime stack: cells tagged with their Go type
          sp,         \* stack pointer
          tron,       \* trace mode
          mod,        \* remainder register
          forMode,    \* FOR loop mode
          input,      \* what is left of standard input
          output,     \* what was written to standard output
          pc,         \* control point: main, line, stmt, done, exit, panic, hang
          last        \* the statement kind of the step taken last

vars == <<src, variables, memory, pbuff, psize, s, pos, ln, stack, sp, tron, mod,
          forMode, input, output, pc, last>>

----------------------------------------------------------------------------
(* 16-bit arithmetic *)

Two16 == 65536
MaxInt16 == 32767

\* int16(x): the value of x in two's complement on 16 bits
Wrap16(x) == LET y == x % Two16 IN IF y > MaxInt16 THEN y - Two16 ELSE y

\* byte(x): the low 8 bits
Byte(x) == x % 256

Abs(x) == IF x < 0 THEN -x ELSE x

\* Go's / and % on integers truncate toward zero
TruncDiv(a, b) == LET q == Abs(a) \div Abs(b) IN IF (a < 0) = (b < 0) THEN q ELSE -q
TruncRem(a, b) == a - b * TruncDiv(a, b)

----------------------------------------------------------------------------
(* Characters.  A byte of the text is a one-character string; the byte 0   *)
(* that currentChar returns past the end of the text is the empty string.  *)

NUL == ""
\* the printable characters 32..95 and 97..126
AsciiLo == " !\"#$%&'()*+,-./0123456789:;<=>?@ABCDEFGHIJKLMNOPQRSTUVWXYZ[\\]^_"
AsciiHi == "abcdefghijklmnopqrstuvwxyz{|}~"
Upper == "ABCDEFGHIJKLMNOPQRSTUVWXYZ"
Lower == "abcdefghijklmnopqrstuvwxyz"
DecDigits == "0123456789"
HexDigits == "0123456789abcdef"

CharAt(str, i) == IF i >= 0 /\ i < Len(str) THEN SubSeq(str, i + 1, i + 1) ELSE NUL
CharsOf(str) == {SubSeq(str, i, i) : i \in 1..Len(str)}
\* 0-based index of c in str (c occurs in str)
IndexIn(c, str) == (CHOOSE i \in 1..Len(str) : SubSeq(str, i, i) = c) - 1

\* the byte value of a character, and the character of a byte value
Ord(c) == IF c = NUL THEN 0
          ELSE IF c = "\n" THEN 10
          ELSE IF c = "\t" THEN 9
          ELSE IF c = "\r" THEN 13
          ELSE IF c \in CharsOf(AsciiLo) THEN 32 + IndexIn(c, AsciiLo)
          ELSE 97 + IndexIn(c, AsciiHi)
HexByte(b) == CharAt(HexDigits, b \div 16) \o CharAt(HexDigits, b % 16)
Chr(b) == IF b = 10 THEN "\n"
          ELSE IF b = 9 THEN "\t"
          ELSE IF b = 13 THEN "\r"
          ELSE IF b >= 32 /\ b <= 95 THEN CharAt(AsciiLo, b - 32)
          ELSE IF b >= 97 /\ b <= 126 THEN CharAt(AsciiHi, b - 97)
          ELSE "\\x" \o HexByte(b)

AlphaChars == CharsOf(Upper) \cup CharsOf(Lower)
DigitChars == CharsOf(DecDigits)
XDigitChars == DigitChars \cup CharsOf("abcdefABCDEF")
isAlpha(c) == c \in AlphaChars
isDigit(c) == c \in DigitChars
isXDigit(c) == c \in XDigitChars
toUpper(c) == IF c \in CharsOf(Lower) THEN CharAt(Upper, IndexIn(c, Lower)) ELSE c
DigitVal(c) == IF isDigit(c) THEN IndexIn(c, DecDigits)
               ELSE 10 + IndexIn(toUpper(c), "ABCDEF")

----------------------------------------------------------------------------
(* Number formatting and parsing (fmt and strconv) *)

RECURSIVE NatStr(_)
NatStr(n) == IF n < 10 THEN CharAt(DecDigits, n)
             ELSE NatStr(n \div 10) \o CharAt(DecDigits, n % 10)
\* fmt.Print(int(v))
FmtDec(v) == IF v < 0 THEN "-" \o NatStr(-v) ELSE NatStr(v)
\* fmt.Printf("%04x", uint16(v))
FmtHex4(v) == LET u == v % Two16 IN HexByte(u \div 256) \o HexByte(u % 256)
\* fmt.Printf("%02x", uint8(v))
FmtHex2(v) == HexByte(Byte(v))
RECURSIVE Spaces(_)
Spaces(n) == IF n <= 0 THEN "" ELSE " " \o Spaces(n - 1)
\* fmt.Printf("%<width>d", int(v)): right-justified for width > 0,
\* left-justified for width < 0
FmtWidth(width, v) ==
    LET d == FmtDec(v) IN
    IF width >= 0 THEN Spaces(width - Len(d)) \o d
    ELSE d \o Spaces(-width - Len(d))

\* int16 of the decimal number written by the digits str[from+1..to]
RECURSIVE DecVal(_, _, _)
DecVal(str, from, to) ==
    IF to <= from THEN 0
    ELSE Wrap16(10 * DecVal(str, from, to - 1) + DigitVal(CharAt(str, to - 1)))
\* the hexadecimal number written by str[from+1..to], on 16 bits
RECURSIVE HexVal(_, _, _)
HexVal(str, from, to) ==
    IF to <= from THEN 0
    ELSE Wrap16(16 * HexVal(str, from, to - 1) + DigitVal(CharAt(str, to - 1)))
\* the position of the first digit of str[from+1..to] that is not a leading zero
RECURSIVE SkipZeros(_, _, _)
SkipZeros(str, from, to) ==
    IF from < to /\ CharAt(str, from) = "0" THEN SkipZeros(str, from + 1, to) ELSE from
\* int16(val) for val, _ := strconv.ParseInt(str[from:to], 16, 32): a value
\* that does not fit 32 bits comes back as the largest int32, whose int16 is -1
ParseHex32(str, from, to) ==
    LET z == SkipZeros(str, from, to) IN
    IF to - z > 8 \/ (to - z = 8 /\ DigitVal(CharAt(str, z)) >= 8) THEN -1
    ELSE HexVal(str, from, to)

----------------------------------------------------------------------------
(* The character cursor *)

currentChar(m) == CharAt(m.s, m.pos)
advance(m, count) == [m EXCEPT !.pos = @ + count]
peek(m, offset) == CharAt(m.s, m.pos + offset)

RECURSIVE SkipWhile(_, _, _)
\* the first position at or after p whose character is not in set
SkipWhile(str, p, set) ==
    IF CharAt(str, p) \in set THEN SkipWhile(str, p + 1, set) ELSE p
RECURSIVE SkipUntil(_, _, _)
\* the first position at or after p whose character is in set; NUL is the
\* character of every position past the end
SkipUntil(str, p, set) ==
    IF CharAt(str, p) \in set THEN p ELSE SkipUntil(str, p + 1, set)

skipSpaces(m) == [m EXCEPT !.pos = SkipWhile(m.s, m.pos, {" "})]

print(m, text) == [m EXCEPT !.output = @ \o text]

\* prints the notice and returns: the caller goes on
syntaxError(m) == print(m, "\nSyntaxerror in " \o FmtDec(m.ln))

skipChar(m, c) == IF currentChar(m) = c THEN advance(m, 1) ELSE syntaxError(m)

\* the result of a method that returns a value
Ret(m, v) == [m |-> m, v |-> v]

getOperator2(m) ==
    LET c == currentChar(m) IN
    IF c \in {"=", "+", "-", "*", "/"} THEN Ret(advance(m, 1), c)
    ELSE IF c = "<" THEN
        IF peek(m, 1) = ">" THEN Ret(advance(m, 2), "N")
        ELSE IF peek(m, 1) = "=" THEN Ret(advance(m, 2), "A")
        ELSE Ret(advance(m, 1), "<")
    ELSE IF c = ">" THEN
        IF peek(m, 1) = "=" THEN Ret(advance(m, 2), "B")
        ELSE Ret(advance(m, 1), ">")
    ELSE Ret(m, NUL)

getOperator1(m) ==
    LET c == currentChar(m) IN
    IF c \in {"+", "-", "'", "#", "%"} THEN Ret(advance(m, 1), c) ELSE Ret(m, NUL)

\* the first letter of a run of letters; the whole run is consumed
getVariable(m) ==
    IF isAlpha(currentChar(m))
    THEN Ret([m EXCEPT !.pos = SkipWhile(m.s, m.pos, AlphaChars)], currentChar(m))
    ELSE Ret(m, NUL)

getHexValue(m) ==
    IF ~isXDigit(currentChar(m)) THEN Ret(m, -1)
    ELSE LET end == SkipWhile(m.s, m.pos, XDigitChars) IN
         Ret([m EXCEPT !.pos = end], ParseHex32(m.s, m.pos, end))

getDecimalValue(m) ==
    IF ~isDigit(currentChar(m)) THEN Ret(m, -1)
    ELSE LET end == SkipWhile(m.s, m.pos, DigitChars) IN
         Ret([m EXCEPT !.pos = end], DecVal(m.s, m.pos, end))

\* the text between the quotes; a missing closing quote is reported by
\* skipChar and the literal runs to the end of the text
getString(m) ==
    IF currentChar(m) = "\"" THEN
        LET start == m.pos + 1
            end == SkipUntil(m.s, start, {"\"", NUL})
        IN  Ret(skipChar([m EXCEPT !.pos = end], "\""), SubSeq(m.s, start + 1, end))
    ELSE Ret(m, "")

getConstant(m) ==
    IF currentChar(m) = "\"" THEN
        LET r == getString(m)
            v0 == IF Len(r.v) > 0 THEN Ord(CharAt(r.v, 0)) ELSE 0
        IN  Ret(r.m, IF Len(r.v) > 1 THEN Wrap16(v0 + Wrap16(Ord(CharAt(r.v, 1)) * 256))
                     ELSE v0)
    ELSE IF currentChar(m) = "$" THEN getHexValue(skipChar(m, "$"))
    ELSE IF isDigit(currentChar(m)) THEN getDecimalValue(m)
    ELSE Ret(m, 0)

----------------------------------------------------------------------------
(* The variable and memory store, the reader *)

\* toUpper(c) - 'A'
VarIdx(c) == IndexIn(toUpper(c), Upper)
V(name) == VarIdx(name)

\* The memory is the function from the addresses of its non-zero cells.
\* memory[a] of the zero-initialised array
MemAt(mem, a) == IF a \in DOMAIN mem THEN mem[a] ELSE 0
\* the array after memory[a] = b
MemPut(mem, a, b) ==
    [x \in (DOMAIN mem \ {a}) \cup (IF b = 0 THEN {} ELSE {a}) |->
        IF x = a THEN b ELSE mem[x]]

\* A Go run-time panic (an index out of range, a failed type assertion) ends
\* the process where it happens: nothing after it in the handler takes effect.
panic(m) == [m EXCEPT !.pc = "panic"]
\* A loop that never ends: the process neither returns nor prints again.
hang(m) == [m EXCEPT !.pc = "hang"]
\* the process ended (panic, os.Exit) or will never return (hang)
Dead(m) == m.pc \in {"panic", "hang", "exit"}

\* Sequencing.  r is what a call returned; K is the code after the call,
\* given the interpreter the call left and the value it returned.  After a
\* panic, an exit or a hang no code runs.
Bind(r, K(_, _)) == IF Dead(r.m) THEN r ELSE K(r.m, r.v)
Then(r, K(_, _)) == IF Dead(r.m) THEN r.m ELSE K(r.m, r.v)
After(m, K(_)) == IF Dead(m) THEN m ELSE K(m)

\* memory[idx] for an int16 index: a negative index is out of range
memLoad(m, idx) == IF idx < 0 THEN Ret(panic(m), 0) ELSE Ret(m, MemAt(m.memory, idx))
memStore(m, idx, b) ==
    IF idx < 0 THEN panic(m) ELSE [m EXCEPT !.memory = MemPut(@, idx, b)]

\* c, _ := m.reader.ReadByte(): 0 at the end of the stream
readByte(m) ==
    IF m.input = "" THEN Ret(m, 0)
    ELSE Ret([m EXCEPT !.input = SubSeq(@, 2, Len(@))], Ord(CharAt(m.input, 0)))

WhiteChars == {" ", "\t", "\n", "\r"}
RECURSIVE TrimRight(_)
TrimRight(str) ==
    IF Len(str) > 0 /\ CharAt(str, Len(str) - 1) \in WhiteChars
    THEN TrimRight(SubSeq(str, 1, Len(str) - 1)) ELSE str
\* strings.TrimSpace
TrimSpace(str) ==
    LET r == TrimRight(str)
        b == SkipWhile(r, 0, WhiteChars)
    IN  SubSeq(r, b + 1, Len(r))
\* strconv: an optional sign, then digits of the base and nothing else; the
\* value is 0 when the text is not a number
SignedVal(str, digits, hex) ==
    LET neg == CharAt(str, 0) = "-"
        b == IF CharAt(str, 0) \in {"-", "+"} THEN 1 ELSE 0
        ok == Len(str) > b /\ SkipWhile(str, b, digits) = Len(str)
        z == SkipZeros(str, b, Len(str))
    IN  IF ~ok THEN 0
        ELSE IF hex THEN
            IF Len(str) - z > 8 \/ (Len(str) - z = 8 /\ DigitVal(CharAt(str, z)) >= 8)
            THEN (IF neg THEN 0 ELSE -1)
            ELSE Wrap16((IF neg THEN -1 ELSE 1) * HexVal(str, b, Len(str)))
        ELSE Wrap16((IF neg THEN -1 ELSE 1) * DecVal(str, b, Len(str)))
\* the value of a line of input: hexadecimal after '$', else decimal
lineValue(line) ==
    IF CharAt(line, 0) = "$"
    THEN SignedVal(SubSeq(line, 2, Len(line)), XDigitChars, TRUE)
    ELSE SignedVal(line, DigitChars, FALSE)
\* the position after the first line of str
lineEnd(nl, str) == IF nl < Len(str) THEN nl + 1 ELSE nl
\* line, _ := m.reader.ReadString('\n') and its conversion
readLine(m) ==
    LET end == lineEnd(SkipUntil(m.input, 0, {"\n", NUL}), m.input) IN
    Ret([m EXCEPT !.input = SubSeq(@, end + 1, Len(@))],
        lineValue(TrimSpace(SubSeq(m.input, 1, end))))

----------------------------------------------------------------------------
(* The expression evaluator *)

\* mutants of divide: a zero divisor yields 0; a zero divisor clears the
\* remainder register; the division rounds toward minus infinity
divide_zeroYieldsZero(m, v, v2) ==
    IF v2 = 0
    THEN Ret([print(m, "Division by zero\n") EXCEPT !.zdiv = @ + 1], 0)
    ELSE Ret([m EXCEPT !.mod = Wrap16(TruncRem(v, v2)), !.nzdiv = @ + 1],
             Wrap16(TruncDiv(v, v2)))
divide_zeroClearsMod(m, v, v2) ==
    IF v2 = 0
    THEN Ret([print(m, "Division by zero\n") EXCEPT !.zdiv = @ + 1, !.mod = 0], -1)
    ELSE Ret([m EXCEPT !.mod = Wrap16(TruncRem(v, v2)), !.nzdiv = @ + 1],
             Wrap16(TruncDiv(v, v2)))
divide_floor(m, v, v2) ==
    IF v2 = 0
    THEN Ret([print(m, "Division by zero\n") EXCEPT !.zdiv = @ + 1], -1)
    ELSE Ret([m EXCEPT !.mod = Wrap16(v - v2 * (IF v2 > 0 THEN v \div v2
                                                 ELSE (-v) \div (-v2))),
                       !.nzdiv = @ + 1],
             Wrap16(IF v2 > 0 THEN v \div v2 ELSE (-v) \div (-v2)))

\* case '/': v / v2, with the notice for a zero divisor and the remainder
\* register set by any other
divide(m, v, v2) ==
    IF v2 = 0
    THEN Ret([print(m, "Division by zero\n") EXCEPT !.zdiv = @ + 1], -1)
    ELSE Ret([m EXCEPT !.mod = Wrap16(TruncRem(v, v2)), !.nzdiv = @ + 1],
             Wrap16(TruncDiv(v, v2)))

Bool(b) == IF b THEN 1 ELSE 0

\* one step of the left-to-right fold: v <op> v2
applyOperator2(m, c, v, v2) ==
    IF c = "+" THEN Ret(m, Wrap16(v + v2))
    ELSE IF c = "-" THEN Ret(m, Wrap16(v - v2))
    ELSE IF c = "*" THEN Ret(m, Wrap16(v * v2))
    ELSE IF c = "/" THEN divide(m, v, v2)
    ELSE IF c = "=" THEN Ret(m, Bool(v = v2))
    ELSE IF c = "<" THEN Ret(m, Bool(v < v2))
    ELSE IF c = "N" THEN Ret(m, Bool(v # v2))
    ELSE IF c = "A" THEN Ret(m, Bool(v <= v2))
    ELSE IF c = ">" THEN Ret(m, Bool(v > v2))
    ELSE Ret(m, Bool(v >= v2))

\* the value of a unary operator applied to v; m is the interpreter after
\* the operand term was evaluated
applyOperator1(m, c, v) ==
    IF c = "-" THEN Wrap16(-v)
    ELSE IF c = "+" THEN (IF v < 0 THEN Wrap16(-v) ELSE v)
    ELSE IF c = "#" THEN (IF v # 0 THEN 0 ELSE 1)
    ELSE IF c = "'" THEN (IF v > 0 THEN m.rnd % v ELSE 0)
    ELSE m.mod

\* the little-endian word of two bytes, as an int16
wordOf(lo, hi) == Wrap16(lo + Wrap16(hi * 256))
\* the address of word idx from base, on 16 bits
wordAddr(base, idx) == Wrap16(base + Wrap16(idx * 2))

RECURSIVE term(_), expression(_), expressionLoop(_, _), variableRef(_, _),
          unaryTerm(_, _), constantTerm(_, _)

\* a variable reference: V:exp) is a byte, V(exp) a word, V the variable
variableRef(m, varIdx) ==
    IF currentChar(m) = ":" THEN
        Bind(expression(skipChar(m, ":")), LAMBDA m1, v :
            memLoad(skipChar(m1, ")"), Wrap16(m1.variables[varIdx] + v)))
    ELSE IF currentChar(m) = "(" THEN
        Bind(expression(skipChar(m, "(")), LAMBDA m1, v :
            Bind(memLoad(skipChar(m1, ")"), wordAddr(m1.variables[varIdx], v)),
                 LAMBDA m2, lo :
            Bind(memLoad(m2, Wrap16(wordAddr(m1.variables[varIdx], v) + 1)),
                 LAMBDA m3, hi : Ret(m3, wordOf(lo, hi)))))
    ELSE Ret(m, m.variables[varIdx])

\* the end of term: a unary operator and its operand, or nothing (0)
unaryTerm(m, o) ==
    IF o.v # NUL
    THEN Bind(term(o.m), LAMBDA m1, v : Ret(m1, applyOperator1(m1, o.v, v)))
    ELSE Ret(m, 0)

\* a constant k if there is one at m, else a unary operator
constantTerm(m, k) ==
    IF k.v # 0 \/ k.m.pos # m.pos THEN k ELSE unaryTerm(m, getOperator1(m))

\* term, after its leading spaces
termAt(m, g) ==
    IF currentChar(m) = "(" THEN
        Bind(expression(skipChar(m, "(")), LAMBDA m1, v :
            Ret(skipChar(skipSpaces(m1), ")"), v))
    ELSE IF g.v # NUL THEN variableRef(g.m, VarIdx(g.v))
    ELSE IF currentChar(m) = "$" /\ ~isXDigit(peek(m, 1)) THEN readByte(advance(m, 1))
    ELSE IF currentChar(m) = "?" THEN readLine(advance(m, 1))
    ELSE constantTerm(m, getConstant(m))

term(m) == termAt(skipSpaces(m), getVariable(skipSpaces(m)))

\* mutant of expressionLoop: the rest of the expression is evaluated first
\* (a right fold)
expressionLoop_rightFold(m, v) ==
    IF getOperator2(m).v = NUL THEN Ret(m, v)
    ELSE Bind(expression(getOperator2(m).m), LAMBDA m1, v2 :
             applyOperator2(m1, getOperator2(m).v, v, v2))

\* the loop of expression: operators are applied as they are met
expressionLoop(m, v) ==
    IF getOperator2(m).v = NUL THEN Ret(m, v)
    ELSE Bind(term(getOperator2(m).m), LAMBDA m1, v2 :
             Bind(applyOperator2(m1, getOperator2(m).v, v, v2), expressionLoop))

expression(m) == Bind(term(skipSpaces(m)), expressionLoop)

----------------------------------------------------------------------------
(* The control-flow engine *)

skipToNewline(m) ==
    LET end == SkipUntil(m.s, m.pos, {"\n", NUL}) IN
    [m EXCEPT !.pos = IF CharAt(m.s, end) = "\n" THEN end + 1 ELSE end]

\* TRUE when str has the character c at or after position p
HasChar(str, p, c) == \E i \in p..(Len(str) - 1) : CharAt(str, i) = c

RECURSIVE searchLoop(_, _)
\* one line of the scan: r is the line number read at m
searchStep(m, r, targetLine) ==
    IF r.v = -1 THEN Ret(r.m, -1)
    ELSE IF r.v >= targetLine THEN Ret(m, r.v)
    ELSE searchLoop(skipToNewline(r.m), targetLine)
\* the scan of searchLine, from the line that starts at m.pos
searchLoop(m, targetLine) ==
    IF m.pos < Len(m.s) THEN searchStep(m, getDecimalValue(m), targetLine)
    ELSE Ret(m, -1)

\* searchLine once m.s and m.pos are reset
searchFrom(m, targetLine) ==
    IF Len(m.s) > 0 /\ CharAt(m.s, 0) = "#" THEN
        \* for m.currentChar() != '\n' { m.advance(1) }
        IF HasChar(m.s, 0, "\n")
        THEN searchLoop([m EXCEPT !.pos = SkipUntil(m.s, 0, {"\n"}) + 1], targetLine)
        ELSE Ret(hang(m), -1)
    ELSE searchLoop(m, targetLine)

searchLine(m, targetLine) == searchFrom([m EXCEPT !.s = m.pbuff, !.pos = 0], targetLine)

gotoLine(m, lineNum) ==
    IF lineNum = -1 THEN [m EXCEPT !.ln = -1]
    ELSE Then(searchLine(m, lineNum), LAMBDA m1, v : [m1 EXCEPT !.ln = v])

\* The cells of the stack are interface{} values: each carries its Go type.
StrCell(x) == [t |-> "string", str |-> x, num |-> 0]
IntCell(n) == [t |-> "int", str |-> "", num |-> n]
Int16Cell(n) == [t |-> "int16", str |-> "", num |-> n]
NilCell == [t |-> "nil", str |-> "", num |-> 0]

\* m.stack = append(m.stack, cell)
push(m, cell) == [m EXCEPT !.stack = Append(@, cell)]
\* m.stack[i].(type): the index must be in range and the cell of that type
stackAt(m, i, type) ==
    IF i < 0 \/ i >= Len(m.stack) THEN Ret(panic(m), NilCell)
    ELSE IF m.stack[i + 1].t # type THEN Ret(panic(m), NilCell)
    ELSE Ret(m, m.stack[i + 1])
\* m.stack = m.stack[:m.sp]: within the capacity a slice can also grow
truncate(m) ==
    IF m.sp < 0 THEN panic(m)
    ELSE [m EXCEPT !.stack = [i \in 1..m.sp |-> IF i <= Len(@) THEN @[i] ELSE NilCell]]

\* push a saved cursor (s, pos): two cells
pushCursor(m, str, p) == [push(push(m, StrCell(str)), IntCell(p)) EXCEPT !.sp = @ + 2]
\* mutant of pushFor: the stack pointer counts three of the four cells
pushFor_threeCells(m, varIdx, str, p, toVal) ==
    [push(push(push(push(m, IntCell(varIdx)), StrCell(str)), IntCell(p)),
          Int16Cell(toVal)) EXCEPT !.sp = @ + 3]

\* push a counted-loop frame: four cells
pushFor(m, varIdx, str, p, toVal) ==
    [push(push(push(push(m, IntCell(varIdx)), StrCell(str)), IntCell(p)),
          Int16Cell(toVal)) EXCEPT !.sp = @ + 4]

gosub(m, lineNum) == gotoLine(pushCursor(m, m.s, m.pos), lineNum)

\* mutant of returnFromSub: the cursor is restored but the frame stays
returnFromSub_noPop(m) ==
    IF m.sp >= 2 THEN
        Then(stackAt(m, m.sp - 1, "int"), LAMBDA m1, p :
        Then(stackAt(m1, m1.sp - 2, "string"), LAMBDA m2, t :
            [m2 EXCEPT !.pos = p.num, !.s = t.str]))
    ELSE m

returnFromSub(m) ==
    IF m.sp >= 2 THEN
        Then(stackAt([m EXCEPT !.sp = @ - 2], m.sp - 1, "int"), LAMBDA m1, p :
        Then(stackAt(m1, m1.sp, "string"), LAMBDA m2, t :
            truncate([m2 EXCEPT !.pos = p.num, !.s = t.str])))
    ELSE m

doLoop(m) == pushCursor(m, m.s, m.pos)

\* mutant of untilLoop: a zero condition restores the cursor but the frame
\* is not pushed again
untilLoop_frameLost(m) ==
    IF m.sp >= 2 THEN
        Then(stackAt([m EXCEPT !.sp = @ - 2], m.sp - 1, "int"), LAMBDA m1, p :
        Then(stackAt(m1, m1.sp, "string"), LAMBDA m2, t :
        Then(expression(truncate(m2)), LAMBDA m3, v :
            IF v = 0
            THEN [m3 EXCEPT !.s = t.str, !.pos = p.num]
            ELSE m3)))
    ELSE m

untilLoop(m) ==
    IF m.sp >= 2 THEN
        Then(stackAt([m EXCEPT !.sp = @ - 2], m.sp - 1, "int"), LAMBDA m1, p :
        Then(stackAt(m1, m1.sp, "string"), LAMBDA m2, t :
        Then(expression(truncate(m2)), LAMBDA m3, v :
            IF v = 0
            THEN pushCursor([m3 EXCEPT !.s = t.str, !.pos = p.num], t.str, p.num)
            ELSE m3)))
    ELSE m

\* m.variables[varIdx] = v: varIdx is an int, the array has 26 slots
setVariable(m, varIdx, v) ==
    IF varIdx \notin DOMAIN m.variables THEN panic(m)
    ELSE [m EXCEPT !.variables[varIdx] = v]

\* mutant of nextLoop: the loop repeats only below the bound
nextLoop_strict(m) ==
    IF m.sp >= 3 THEN
        Then(stackAt([m EXCEPT !.sp = @ - 3], m.sp - 1, "int16"), LAMBDA m1, b :
        Then(stackAt(m1, m1.sp + 1, "int"), LAMBDA m2, p :
        Then(stackAt(m2, m2.sp, "string"), LAMBDA m3, t :
        Then(stackAt(m3, m3.sp - 1, "int"), LAMBDA m4, x :
        Then(expression(truncate([m4 EXCEPT !.sp = @ - 1])), LAMBDA m5, v :
        After(setVariable(m5, x.num, v), LAMBDA m6 :
            IF v < b.num
            THEN pushFor([m6 EXCEPT !.s = t.str, !.pos = p.num],
                         x.num, t.str, p.num, b.num)
            ELSE m6))))))
    ELSE m

nextLoop(m) ==
    IF m.sp >= 3 THEN
        Then(stackAt([m EXCEPT !.sp = @ - 3], m.sp - 1, "int16"), LAMBDA m1, b :
        Then(stackAt(m1, m1.sp + 1, "int"), LAMBDA m2, p :
        Then(stackAt(m2, m2.sp, "string"), LAMBDA m3, t :
        Then(stackAt(m3, m3.sp - 1, "int"), LAMBDA m4, x :
        Then(expression(truncate([m4 EXCEPT !.sp = @ - 1])), LAMBDA m5, v :
        After(setVariable(m5, x.num, v), LAMBDA m6 :
            IF v <= b.num
            THEN pushFor([m6 EXCEPT !.s = t.str, !.pos = p.num],
                         x.num, t.str, p.num, b.num)
            ELSE m6))))))
    ELSE m

ifStatement(m, condition) ==
    IF condition = 0 THEN advance(skipToNewline(m), -1) ELSE m

----------------------------------------------------------------------------
(* Files and meta-commands *)

\* The files that *LD can name.  The source file of the run is src.text.
Disk == [name \in {"sub"} |-> "10 \"sub\"/\n20 *QU\n"]

\* os.ReadFile(filename): the error is dropped by the *LD caller
loadSource(m, filename) ==
    IF filename \in DOMAIN Disk
    THEN [m EXCEPT !.pbuff = Disk[filename], !.psize = Len(Disk[filename])]
    ELSE m

\* loadSourceCommand after its skipSpaces
loadNamed(m) ==
    \* for m.currentChar() != '\n' { m.advance(1) }
    IF HasChar(m.s, m.pos, "\n") THEN
        loadSource([m EXCEPT !.pos = SkipUntil(m.s, m.pos, {"\n"})],
                   SubSeq(m.s, m.pos + 1, SkipUntil(m.s, m.pos, {"\n"})))
    ELSE hang(m)

loadSourceCommand(m) == loadNamed(skipSpaces(m))

\* optionalCommand once the two letters c1 c2 are read
command(m, c1, c2) ==
    IF c1 = "L" /\ c2 = "D" THEN loadSourceCommand(m)
    ELSE IF c1 = "Q" /\ c2 = "U" THEN [m EXCEPT !.pc = "exit"]
    ELSE IF c1 = "T" /\ c2 = "N" THEN [m EXCEPT !.tron = TRUE]
    ELSE IF c1 = "T" /\ c2 = "F" THEN [m EXCEPT !.tron = FALSE]
    ELSE IF c1 = "S" /\ c2 = "H" THEN print(m, "Shell command not supported\n")
    ELSE IF c1 = "F" /\ c2 = "M" THEN
        Then(expression(m), LAMBDA m1, v : [m1 EXCEPT !.forMode = v])
    ELSE syntaxError(m)

optionalCommand(m) ==
    command(advance(m, 2), toUpper(currentChar(m)), toUpper(peek(m, 1)))

----------------------------------------------------------------------------
(* run: the statement dispatcher.  pc = "line" is the top of the outer     *)
(* loop, pc = "stmt" the top of the inner loop; each handler below is one  *)
(* branch of the loop, up to its continue, break or return.                *)

continue(m) == m
break(m) == IF Dead(m) THEN m ELSE [m EXCEPT !.pc = "line"]
return(m) == IF Dead(m) THEN m ELSE [m EXCEPT !.pc = "done"]

\* the value of "=expr" after the sigil: skipChar('=') and expression()
assigned(m) == expression(skipChar(m, "="))

\* the line number r was read: trace it, keep it, and skip a line whose
\* number is not followed by a space
lineNumber(r) ==
    LET m1 == IF r.m.tron THEN print(r.m, "[" \o FmtDec(r.v) \o "]") ELSE r.m IN
    IF currentChar(m1) # " " THEN skipToNewline([m1 EXCEPT !.ln = r.v])
    ELSE [m1 EXCEPT !.ln = r.v, !.pc = "stmt"]

\* the top of the outer loop, down to the first statement of the line
runLine(m) ==
    IF currentChar(m) = NUL THEN return(m)
    ELSE IF m.ln = -1 THEN return(m)
    ELSE IF m.ln # 0 THEN lineNumber(getDecimalValue(m))
    ELSE [m EXCEPT !.pc = "stmt"]

stmtNewline(m) == break(advance(m, 1))
stmtSpaces(m) == continue(skipSpaces(m))
stmtString(m) == continue(print(getString(m).m, getString(m).v))
stmtSlash(m) == continue(print(skipChar(m, "/"), "\n"))
stmtDot(m) ==
    Then(assigned(skipChar(m, ".")), LAMBDA m1, v : continue(print(m1, Spaces(v))))
stmtMeta(m) == continue(optionalCommand(advance(m, 1)))

\* the output commands, m after the '?'
outputCommand(m, c) ==
    IF c = "=" THEN
        Then(assigned(m), LAMBDA m1, v : continue(print(m1, FmtDec(v))))
    ELSE IF c = "?" THEN
        Then(assigned(skipChar(m, "?")), LAMBDA m1, v : continue(print(m1, FmtHex4(v))))
    ELSE IF c = "$" THEN
        Then(assigned(skipChar(m, "$")), LAMBDA m1, v : continue(print(m1, FmtHex2(v))))
    ELSE IF c = "(" THEN
        Then(expression(skipChar(m, "(")), LAMBDA m1, width :
        Then(assigned(skipChar(m1, ")")), LAMBDA m2, v :
            continue(print(m2, FmtWidth(width, v)))))
    ELSE return(syntaxError(m))

stmtOutput(m) == outputCommand(advance(m, 1), peek(m, 1))

\* rand.Seed: the generator is the oracle m.rnd, which no seed constrains
stmtSeed(m) == Then(assigned(advance(m, 1)), LAMBDA m1, v : continue(m1))
stmtPutc(m) ==
    Then(assigned(advance(m, 1)), LAMBDA m1, v : continue(print(m1, Chr(Byte(v)))))
stmtGoto(m) == Then(assigned(advance(m, 1)), LAMBDA m1, v : break(gotoLine(m1, v)))
stmtGosub(m) == Then(assigned(advance(m, 1)), LAMBDA m1, v : break(gosub(m1, v)))
stmtReturn(m) == continue(returnFromSub(advance(m, 1)))
\* '@': "@=(" is UNTIL, "@=" is NEXT, anything else is DO
stmtAt(m) ==
    IF peek(m, 1) = "=" THEN
        IF peek(m, 2) = "(" THEN continue(untilLoop(advance(m, 2)))
        ELSE continue(nextLoop(advance(m, 2)))
    ELSE continue(doLoop(advance(m, 1)))
stmtIf(m) == Then(assigned(advance(m, 1)), LAMBDA m1, v : continue(ifStatement(m1, v)))

\* the for-mode skip: m is at the next '@' of the text, or at its end
skipLoop(m) ==
    IF currentChar(m) = NUL THEN m
    ELSE Then(expression(skipChar(skipChar(m, "@"), "=")), LAMBDA m1, v : m1)

\* mutant of forLoop: the body is skipped whatever the for-mode flag is
forLoop_modeIgnored(m, varIdx) ==
    IF currentChar(m) = "," THEN
        Then(expression(skipChar(m, ",")), LAMBDA m1, toVal :
            IF m1.variables[varIdx] > toVal
            THEN skipLoop([m1 EXCEPT !.pos = SkipUntil(m1.s, m1.pos, {"@", NUL})])
            ELSE pushFor(m1, varIdx, m1.s, m1.pos, toVal))
    ELSE m

\* the FOR part of an assignment: ",bound" after the assigned value
forLoop(m, varIdx) ==
    IF currentChar(m) = "," THEN
        Then(expression(skipChar(m, ",")), LAMBDA m1, toVal :
            IF m1.variables[varIdx] > toVal /\ m1.forMode # 0
            THEN skipLoop([m1 EXCEPT !.pos = SkipUntil(m1.s, m1.pos, {"@", NUL})])
            ELSE pushFor(m1, varIdx, m1.s, m1.pos, toVal))
    ELSE m

\* byte(v >> 8)
highByte(v) == Byte((v % Two16) \div 256)

\* mutant of storeWord: the high byte is stored first (big-endian)
storeWord_bigEndian(m, addr, v) ==
    After(memStore(m, addr, highByte(v)), LAMBDA m1 :
        memStore(m1, Wrap16(addr + 1), Byte(v)))

\* m.memory[addr] = byte(v); m.memory[addr+1] = byte(v >> 8)
storeWord(m, addr, v) ==
    After(memStore(m, addr, Byte(v)), LAMBDA m1 :
        memStore(m1, Wrap16(addr + 1), highByte(v)))

\* the assignment to the variable g.v, m after its name
assignTo(m, varIdx) ==
    IF currentChar(m) = ":" THEN
        Then(expression(advance(m, 1)), LAMBDA m1, idx :
        Then(assigned(skipChar(m1, ")")), LAMBDA m2, v :
        After(memStore(m2, Wrap16(m2.variables[varIdx] + idx), Byte(v)), LAMBDA m3 :
            continue(forLoop(m3, varIdx)))))
    ELSE IF currentChar(m) = "(" THEN
        Then(expression(advance(m, 1)), LAMBDA m1, idx :
        Then(assigned(skipChar(m1, ")")), LAMBDA m2, v :
        After(storeWord(m2, wordAddr(m2.variables[varIdx], idx), v), LAMBDA m3 :
            continue(forLoop(m3, varIdx)))))
    ELSE
        Then(assigned(m), LAMBDA m1, v :
            continue(forLoop([m1 EXCEPT !.variables[varIdx] = v], varIdx)))

\* a letter: assignment to a byte cell, a word cell or the variable
stmtAssign(m) == assignTo(getVariable(m).m, VarIdx(getVariable(m).v))

stmtSyntaxError(m) == return(syntaxError(m))

\* main: load the file named on the command line, find line 1, run
main(m, file) ==
    IF ~file.exists
    THEN [print(m, "Error loading file\n") EXCEPT !.pc = "fail"]
    ELSE After(gotoLine([m EXCEPT !.pbuff = file.text, !.psize = Len(file.text)], 1),
               LAMBDA m1 : [m1 EXCEPT !.pc = "line"])

----------------------------------------------------------------------------
(* The source files the interpreter is run on *)

\* a source file: what generated it (kind, p), its text, and the standard
\* input of the run
Source(kind, p, text, stdin) ==
    [kind |-> kind, p |-> p, text |-> text, exists |-> TRUE, stdin |-> stdin]

\* the end-to-end scenario of the specification
ScenarioText == "10 A=5/A=A*2??=A/\n20 *QU\n"

\* a program that goes through every statement kind
TourText ==
    "# tour\n"
    \o "5REM\n"
    \o "10 *TN *SH *FM=0 '=7 A='3 B=$ C=? \"hi\"/.=2 ?=1+2 ??=255 ?$=17 ?(4)=-5 $=65\n"
    \o "20 *TF A=$100 A:1)=7 A(1)=$1234 ?=A:1) ?=A(1) !=100 @ B=B+1 @=(B>2)\n"
    \o "30 I=1,2 \"i\" @=I+1 ;=0 \"no\"\n"
    \o "40 ;=1 #=60\n"
    \o "50 \"skipped\"\n"
    \o "60 *LD sub\n"
    \o "70 #=10\n"
    \o "100 \"s\" ]\n"
TourBadText == "10 *XX ?#\n"
TourSyntaxText == "10 &\n"

FixedSources ==
    { Source("scenario", <<>>, ScenarioText, ""),
      Source("tour", <<>>, TourText, "x12\n"),
      Source("tour", <<>>, TourBadText, ""),
      Source("tour", <<>>, TourSyntaxText, ""),
      Source("tour", <<>>, "10 \"end\"", ""),
      [Source("tour", <<>>, "", "") EXCEPT !.exists = FALSE] }

\* a number as a term of an expression: a constant, or unary minus on one
TermText(n) == IF n < 0 THEN "-" \o NatStr(-n) ELSE NatStr(n)

\* "10 R=t0 op1 t1 op2 t2": the terms are constants or the variable A, the
\* operators are the ten binary operators
ExprTerms == <<"A", "2", "3", "4", "$FFFE">>
ExprOps == <<"+", "-", "*", "/", "=", "<", "<>", "<=", ">", ">=">>
ExprText(p) ==
    "10 R=" \o ExprTerms[p[1]] \o ExprOps[p[2]] \o ExprTerms[p[3]]
            \o ExprOps[p[4]] \o ExprTerms[p[5]]
ExprSources ==
    { Source("expr", p, ExprText(p), "") :
        p \in (DOMAIN ExprTerms) \X (DOMAIN ExprOps) \X (DOMAIN ExprTerms)
                \X (DOMAIN ExprOps) \X (DOMAIN ExprTerms) }

\* a division by zero in an output statement, with the remainder register,
\* a variable, a memory cell and a stack frame set before it
DivzDividends == {5, 0, -8, 32767}
DivzDivisors == <<"0", "Z", "(3-3)", "$0">>
DivzText(p) ==
    "10 Q=7/2 B=3 B:1)=9 @ ?=" \o TermText(p[1]) \o "/" \o DivzDivisors[p[2]]
        \o " \"x\"\n20 \"y\"\n"
DivzSources ==
    { Source("divz", p, DivzText(p), "") : p \in DivzDividends \X (DOMAIN DivzDivisors) }

\* a division a/b, then the remainder operator on several operand terms with
\* statements in between that divide by nothing but zero
RemDividends == {10, -10, 7, -7, 0, 32767, -32768}
RemDivisors == {3, -3, 1, -1, 2, -32768}
RemText(p) ==
    "10 Q=" \o TermText(p[1]) \o "/" \o TermText(p[2])
        \o " R=%0 \"t\" X=1+2 S=%X ;=1 Z=4/0 T=%(9*9)\n20 U=%\"ab\" W=%?\n"
RemSources ==
    { Source("rem", p, RemText(p), "77\n") : p \in RemDividends \X RemDivisors }

\* GOTO: line 5 jumps to the target p[2]; every other line prints its
\* number's mark and quits.  The layouts: lines in ascending order; the
\* same with an empty line before line 20; lines out of order.
GotoLayouts ==
    << "5 #=%\n10 \"a\" *QU\n20 \"b\" *QU\n30 \"c\" *QU\n",
       "5 #=%\n10 \"a\" *QU\n\n20 \"b\" *QU\n30 \"c\" *QU\n",
       "5 #=%\n30 \"c\" *QU\n10 \"a\" *QU\n20 \"b\" *QU\n" >>
GotoLines == {5, 10, 20, 30}
GotoMark(n) == IF n = 10 THEN "a" ELSE IF n = 20 THEN "b" ELSE "c"
GotoTargets == {-1, -2, 0, 5, 6, 10, 15, 20, 25, 30, 31, 32767}
\* the text with its % replaced by with
RECURSIVE Fill(_, _)
Fill(text, with) ==
    IF text = "" THEN ""
    ELSE (IF Head(text) = "%" THEN with ELSE Head(text)) \o Fill(Tail(text), with)
GotoSources ==
    { Source("goto", p, Fill(GotoLayouts[p[1]], TermText(p[2])), "") :
        p \in (DOMAIN GotoLayouts) \X GotoTargets }

\* byte and word cells: A is the base, p = <<base, index, value>>; the cell
\* at Z:50), which no program of the family addresses through A, is set first
ArrayBases == {0, 1, 100, 32766, 32767, -32768, -1}
ArrayIndexes == {0, 1, 3, -1, 16383, 16384}
ByteValues == {0, 7, 128, 255}
WordValues == {0, 1, 255, 256, 4660, 32767, -1, -32768}
ByteText(p) ==
    "10 Z:50)=9 A=" \o TermText(p[1]) \o " A:" \o TermText(p[2]) \o ")=" \o TermText(p[3])
        \o " R=A:" \o TermText(p[2]) \o ")"
WordText(p) ==
    "10 Z:50)=9 A=" \o TermText(p[1]) \o " A(" \o TermText(p[2]) \o ")=" \o TermText(p[3])
        \o " R=A(" \o TermText(p[2]) \o ") L=A:2*" \o TermText(p[2])
        \o ") H=A:2*" \o TermText(p[2]) \o "+1)"
\* the two bytes written one by one, then read as a word
PairText(p) ==
    "10 Z:50)=9 A=" \o TermText(p[1]) \o " A:2*" \o TermText(p[2]) \o ")=" \o TermText(p[3] % 256)
        \o " A:2*" \o TermText(p[2]) \o "+1)=" \o TermText((p[3] % Two16) \div 256)
        \o " R=A(" \o TermText(p[2]) \o ")"
ArraySources ==
    { Source("byte", p, ByteText(p), "") : p \in ArrayBases \X ArrayIndexes \X ByteValues }
    \cup { Source("word", p, WordText(p), "") :
             p \in ArrayBases \X ArrayIndexes \X WordValues }
    \cup { Source("pair", p, PairText(p), "") :
             p \in ArrayBases \X ArrayIndexes \X WordValues }

\* counted loops: p = <<start, bound, for-mode, body>>; the body counts its
\* runs in C, line 20 sets D
ForBodies ==
    << "C=C+1", "@ C=C+1 @=(1)", "\"a@b\" C=C+1", "C=C+1\n15 \"b\"" >>
ForPairs ==
    { <<5, 0>>, <<1, 0>>, <<5, 4>>, <<0, -5>>, <<-3, -5>>, <<32766, 4>>,
      <<32767, -32767>>, <<32767, -32768>> }
ForText(p) ==
    "10 " \o (IF p[3] # 0 THEN "*FM " \o TermText(p[3]) \o " " ELSE "")
        \o "V=" \o TermText(p[1]) \o "," \o TermText(p[2]) \o " " \o ForBodies[p[4]]
        \o " @=V+1\n20 D=1\n"
ForSources ==
    { Source("for", <<q[1], q[2], fm, body>>, ForText(<<q[1], q[2], fm, body>>), "") :
        q \in ForPairs, fm \in {0, 1}, body \in DOMAIN ForBodies }

\* RETURN, UNTIL and loop-step with too few cells on the stack
UnderflowTexts ==
    << "10 ] \"x\"\n20 \"y\"\n",
       "10 @=(A=0) \"x\"\n20 \"y\"\n",
       "10 @=A+1 \"x\"\n20 \"y\"\n",
       "10 @ @=A+1 \"x\"\n20 \"y\"\n" >>
UnderflowSources ==
    { Source("underflow", <<i>>, UnderflowTexts[i], "") : i \in DOMAIN UnderflowTexts }

\* syntax errors: a character that is no statement sigil, an unknown
\* meta-command; A is set before the error, B and line 20 come after it
SyntaxTexts ==
    << "10 A=1 & B=1\n20 \"y\"\n",
       "10 A=1 *XX B=1\n20 \"y\"\n",
       "10 A=1 ) B=1\n20 \"y\"\n",
       "10 A=1 *zz B=1\n20 \"y\"\n" >>
SyntaxSources ==
    { Source("syntax", <<i>>, SyntaxTexts[i], "") : i \in DOMAIN SyntaxTexts }

\* a comment or blank line between two executable lines
BlankTexts ==
    << "10 \"a\"\n15REM \"x\"\n20 \"b\"\n",
       "10 \"a\"\n\n20 \"b\"\n",
       "10 \"a\"\nREM \"x\"\n20 \"b\"\n",
       "10 \"a\"\n15\n20 \"b\"\n",
       "10 \"a\"\n \"x\"\n20 \"b\"\n" >>
BlankSources ==
    { Source("blank", <<i>>, BlankTexts[i], "") : i \in DOMAIN BlankTexts }

\* IF: p = <<condition, layout>>; the IF line is followed by another line,
\* is the last line with a newline, or is the last line without one
IfLayouts ==
    << "10 ;=% \"t\" A=1\n20 \"n\"\n",
       "10 ;=% \"t\" A=1\n",
       "10 ;=% \"t\" A=1",
       "10 \"p\"\n20 ;=% \"t\" A=1" >>
IfConditions == {0, 1, -1, 5}
IfSources ==
    { Source("if", p, Fill(IfLayouts[p[2]], TermText(p[1])), "") :
        p \in IfConditions \X (DOMAIN IfLayouts) }

\* DO/UNTIL: p = <<condition, layout>>; the body counts its runs in C.  The
\* loop is alone on its line, inside a subroutine, or spread over two lines.
DoConds == << "(C>=1)", "(C>=3)", "(C-1)", "(1)", "(C=2)", "(-1)" >>
DoLayouts ==
    << "10 @ C=C+1 @=% D=1\n",
       "10 !=100 D=1\n20 *QU\n100 @ C=C+1 @=% ]\n",
       "10 @ C=C+1\n20 E=E+1 @=% D=1\n" >>
DoSources ==
    { Source("do", p, Fill(DoLayouts[p[2]], DoConds[p[1]]), "") :
        p \in (DOMAIN DoConds) \X (DOMAIN DoLayouts) }

\* GOSUB/RETURN: the subroutine is two plain lines, holds a balanced
\* DO/UNTIL, calls another subroutine, or is named by an expression
GosubTexts ==
    << "10 !=100 \"r\"\n20 *QU\n100 \"s\"\n110 \"t\" ]\n",
       "10 !=95 \"r\"\n20 *QU\n100 @ C=C+1 @=(C>=2) \"s\" ]\n",
       "10 !=100 \"r\"\n20 *QU\n100 !=200 \"s\" ]\n200 \"t\" ]\n",
       "10 A=50 !=A*2 \"r\"\n20 *QU\n100 \"s\" ]\n" >>
GosubSources ==
    { Source("gosub", <<i>>, GosubTexts[i], "") : i \in DOMAIN GosubTexts }

\* a pop that meets the frame of another construct: RETURN and UNTIL on a
\* counted-loop frame, loop-step on two cursor frames, RETURN on a DO frame,
\* UNTIL on a GOSUB frame
MismatchTexts ==
    << "10 I=1,2 ] \"x\"\n20 \"y\"\n",
       "10 I=1,2 @=(1) \"x\"\n20 \"y\"\n",
       "10 @ @ @=I+1 \"x\"\n20 \"y\"\n",
       "10 @ ] \"x\"\n20 \"y\"\n",
       "10 !=100\n20 *QU\n100 @=(1) \"x\"\n" >>
MismatchSources ==
    { Source("mismatch", <<i>>, MismatchTexts[i], "") : i \in DOMAIN MismatchTexts }

\* counted loops V=a,b with a <= b: the body counts its runs in C and quits
\* the run once it has run more than LoopFuel times
LoopFuel == 6
CountPairs ==
    { <<1, 3>>, <<0, 0>>, <<-2, 0>>, <<5, 5>>, <<32764, 32766>>, <<-32768, -32767>>,
      <<32766, 32767>>, <<32767, 32767>> }
CountText(p) ==
    "10 V=" \o TermText(p[1]) \o "," \o TermText(p[2]) \o " C=C+1 ;=C>"
        \o TermText(LoopFuel) \o " *QU\n15 @=V+1\n20 D=1\n"
CountSources == { Source("count", p, CountText(p), "") : p \in CountPairs }

\* line lookups at the edges of the text: a leading # line with and without
\* a newline, a last line without a newline
LookupTexts ==
    << "#rem",
       "#rem\n10 \"a\"",
       "10 #=20\n20 \"a\"",
       "10 #=30\n20 \"a\"",
       "#rem\n" >>
LookupSources ==
    { Source("lookup", <<i>>, LookupTexts[i], "") : i \in DOMAIN LookupTexts }

Sources ==
    FixedSources \cup ExprSources \cup DivzSources \cup RemSources \cup GotoSources
        \cup ArraySources \cup ForSources \cup UnderflowSources \cup SyntaxSources
        \cup BlankSources \cup IfSources \cup DoSources
        \cup GosubSources \cup MismatchSources \cup CountSources \cup LookupSources

----------------------------------------------------------------------------
(* The state machine *)

\* rand.Intn draws from the generator: the oracle of one step
MaxRand == 2
RandOracle == 0..MaxRand

\* the interpreter as the handlers see it
Cur(r) ==
    [variables |-> variables, memory |-> memory, pbuff |-> pbuff, psize |-> psize,
     s |-> s, pos |-> pos, ln |-> ln, stack |-> stack, sp |-> sp, tron |-> tron,
     mod |-> mod, forMode |-> forMode, input |-> input, output |-> output,
     pc |-> pc, rnd |-> r, nzdiv |-> 0, zdiv |-> 0]

\* the state the handler left, and what the step was
Commit(m, kind) ==
    /\ variables' = m.variables
    /\ memory' = m.memory
    /\ pbuff' = m.pbuff
    /\ psize' = m.psize
    /\ s' = m.s
    /\ pos' = m.pos
    /\ ln' = m.ln
    /\ stack' = m.stack
    /\ sp' = m.sp
    /\ tron' = m.tron
    /\ mod' = m.mod
    /\ forMode' = m.forMode
    /\ input' = m.input
    /\ output' = m.output
    /\ pc' = m.pc
    /\ last' = [stmt |-> kind, nzdiv |-> m.nzdiv, zdiv |-> m.zdiv]
    /\ UNCHANGED src

\* the character the dispatcher looks at
Sigil == CharAt(s, pos)

Init ==
    /\ src \in Sources
    /\ variables = [i \in 0..25 |-> 0]
    /\ memory = <<>>
    /\ pbuff = ""
    /\ psize = 0
    /\ s = ""
    /\ pos = 0
    /\ ln = 0
    /\ stack = <<>>
    /\ sp = 0
    /\ tron = FALSE
    /\ mod = 0
    /\ forMode = 0
    /\ input = src.stdin
    /\ output = ""
    /\ pc = "main"
    /\ last = [stmt |-> "none", nzdiv |-> 0, zdiv |-> 0]

Main == pc = "main" /\ Commit(main(Cur(0), src), "main")
RunLine == pc = "line" /\ Commit(runLine(Cur(0)), "line")
StmtEnd == pc = "stmt" /\ Sigil = NUL /\ Commit(return(Cur(0)), "end")
StmtNewline == pc = "stmt" /\ Sigil = "\n" /\ Commit(stmtNewline(Cur(0)), "newline")
StmtSpaces == pc = "stmt" /\ Sigil = " " /\ Commit(stmtSpaces(Cur(0)), "spaces")
StmtString == pc = "stmt" /\ Sigil = "\"" /\ Commit(stmtString(Cur(0)), "string")
StmtSlash == pc = "stmt" /\ Sigil = "/" /\ Commit(stmtSlash(Cur(0)), "slash")
StmtDot == pc = "stmt" /\ Sigil = "." /\ \E r \in RandOracle : Commit(stmtDot(Cur(r)), "dot")
StmtMeta == pc = "stmt" /\ Sigil = "*" /\ \E r \in RandOracle : Commit(stmtMeta(Cur(r)), "meta")
StmtOutput == pc = "stmt" /\ Sigil = "?" /\ \E r \in RandOracle : Commit(stmtOutput(Cur(r)), "output")
StmtSeed == pc = "stmt" /\ Sigil = "'" /\ \E r \in RandOracle : Commit(stmtSeed(Cur(r)), "seed")
StmtPutc == pc = "stmt" /\ Sigil = "$" /\ \E r \in RandOracle : Commit(stmtPutc(Cur(r)), "putc")
StmtGoto == pc = "stmt" /\ Sigil = "#" /\ \E r \in RandOracle : Commit(stmtGoto(Cur(r)), "goto")
StmtGosub == pc = "stmt" /\ Sigil = "!" /\ \E r \in RandOracle : Commit(stmtGosub(Cur(r)), "gosub")
StmtReturn == pc = "stmt" /\ Sigil = "]" /\ Commit(stmtReturn(Cur(0)), "return")
StmtAt == pc = "stmt" /\ Sigil = "@" /\ \E r \in RandOracle : Commit(stmtAt(Cur(r)), "at")
StmtIf == pc = "stmt" /\ Sigil = ";" /\ \E r \in RandOracle : Commit(stmtIf(Cur(r)), "if")
StmtAssign == pc = "stmt" /\ isAlpha(Sigil) /\ \E r \in RandOracle : Commit(stmtAssign(Cur(r)), "assign")
StmtSyntaxError ==
    /\ pc = "stmt"
    /\ Sigil \notin {NUL, "\n", " ", "\"", "/", ".", "*", "?", "'", "$", "#", "!", "]", "@", ";"}
    /\ ~isAlpha(Sigil)
    /\ Commit(stmtSyntaxError(Cur(0)), "syntax")

Next ==
    \/ Main
    \/ RunLine
    \/ StmtEnd
    \/ StmtNewline
    \/ StmtSpaces
    \/ StmtString
    \/ StmtSlash
    \/ StmtDot
    \/ StmtMeta
    \/ StmtOutput
    \/ StmtSeed
    \/ StmtPutc
    \/ StmtGoto
    \/ StmtGosub
    \/ StmtReturn
    \/ StmtAt
    \/ StmtIf
    \/ StmtAssign
    \/ StmtSyntaxError

Spec == Init /\ [][Next]_vars

----------------------------------------------------------------------------
(* Claims *)

Running == pc \in {"main", "line", "stmt"}
Var(name) == variables[V(name)]

\* C1 (as amended): the program `10 A=5/A=A*2??=A/`, `20 *QU` reads
\* A=5/A=A*2 as one expression ((5/A)=A)*2 with A = 0 and ??=A/ as A divided
\* by a missing term: it prints the division-by-zero notice twice, then ffff
\* with no newline, leaves A equal to 0 and ends through QU with status 0.
C1_Scenario ==
    (src.kind = "scenario" /\ ~Running) =>
        /\ pc = "exit"
        /\ output = "Division by zero\nDivision by zero\nffff"
        /\ Var("A") = 0
C1_Witness == src.kind = "scenario" /\ pc = "exit" /\ last.stmt = "meta"
\* C1 as stated: the program prints 000a and a newline and nothing else,
\* leaves A equal to 10 and ends through QU with status 0.
C1_Original ==
    (src.kind = "scenario" /\ ~Running) =>
        /\ pc = "exit"
        /\ output = "000a\n"
        /\ Var("A") = 10

\* the values of the terms of ExprTerms (A is 0) and the meaning of the
\* operators of ExprOps, for the left fold
ExprTermValue == <<0, 2, 3, 4, -2>>
FoldOp(op, a, b) ==
    LET bool(x) == IF x THEN 1 ELSE 0 IN
    CASE op = "+" -> Wrap16(a + b)
      [] op = "-" -> Wrap16(a - b)
      [] op = "*" -> Wrap16(a * b)
      [] op = "/" -> IF b = 0 THEN -1
                     ELSE IF (a < 0) = (b < 0) THEN Abs(a) \div Abs(b)
                     ELSE -(Abs(a) \div Abs(b))
      [] op = "=" -> bool(a = b)
      [] op = "<" -> bool(a < b)
      [] op = "<>" -> bool(a # b)
      [] op = "<=" -> bool(a <= b)
      [] op = ">" -> bool(a > b)
      [] op = ">=" -> bool(a >= b)
LeftFold(p) ==
    FoldOp(ExprOps[p[4]],
           FoldOp(ExprOps[p[2]], ExprTermValue[p[1]], ExprTermValue[p[3]]),
           ExprTermValue[p[5]])
Comparisons == {"=", "<", "<>", "<=", ">", ">="}

\* C2 (as amended): t0 op1 t1 op2 t2 evaluates to the left fold
\* (t0 op1 t1) op2 t2 for all ten operators at one precedence: 2+3*4 is 20,
\* 2*3+4 is 10, and a comparison yields 1 or 0.
C2_LeftFold ==
    (src.kind = "expr" /\ pc = "done") =>
        /\ Var("R") = LeftFold(src.p)
        /\ ExprOps[src.p[4]] \in Comparisons => Var("R") \in {0, 1}
        /\ src.text = "10 R=2+3*4" => Var("R") = 20
        /\ src.text = "10 R=2*3+4" => Var("R") = 10
\* C2 as stated: the left fold for all ten operators, with 2+3*4 yielding
\* 20 and 2*3+4 yielding 18.
C2_Original ==
    (src.kind = "expr" /\ pc = "done") =>
        /\ Var("R") = LeftFold(src.p)
        /\ ExprOps[src.p[4]] \in Comparisons => Var("R") \in {0, 1}
        /\ src.text = "10 R=2+3*4" => Var("R") = 20
        /\ src.text = "10 R=2*3+4" => Var("R") = 18
C2_Witness == src.text = "10 R=2+3*4" /\ pc = "done" /\ Var("R") = 20

\* C3: a division by zero yields -1 (printed by the statement that holds
\* it), leaves the remainder register, the variables, the memory and the
\* stack as they were, and the run goes on: the rest of the line and the
\* next line are executed.
C3_DivisionByZero ==
    /\ [][(src.kind = "divz" /\ last'.zdiv > 0) =>
            /\ output' = output \o "Division by zero\n-1"
            /\ UNCHANGED <<mod, variables, memory, stack, sp>>
            /\ pc' = "stmt"]_vars
    /\ []((src.kind = "divz" /\ ~Running) =>
            (pc = "done" /\ output = "Division by zero\n-1xy"))
C3_Witness ==
    /\ src.kind = "divz" /\ last.zdiv = 1 /\ pc = "stmt"
    /\ mod = 1 /\ Var("B") = 3 /\ memory = (4 :> 9) /\ sp = 2

\* C4: a/b with b non-zero yields the truncated quotient (on 16 bits) and
\* sets the remainder register to the signed remainder; the unary %
\* operator returns that remainder whatever its operand, and the register
\* changes only in a step that evaluates a non-zero division.
C4_Remainder ==
    /\ [][last'.nzdiv = 0 => mod' = mod]_vars
    /\ []((src.kind = "rem" /\ pc = "done") =>
            LET a == src.p[1]
                b == src.p[2]
            IN  /\ \E q \in -(MaxInt16 + 1)..(MaxInt16 + 1) :
                      /\ a = b * q + mod
                      /\ Var("Q") = Wrap16(q)
                /\ Abs(mod) < Abs(b)
                /\ mod # 0 => (mod < 0) = (a < 0)
                /\ Var("R") = mod /\ Var("S") = mod /\ Var("T") = mod
                /\ Var("U") = mod /\ Var("W") = mod
                /\ Var("Z") = -1 /\ input = "")
C4_Witness ==
    /\ src.kind = "rem" /\ src.p = <<-7, 3>> /\ pc = "done"
    /\ Var("Q") = -2 /\ Var("W") = -1

\* C5 (as claimed): #=t continues at the existing line with the nearest
\* number greater than or equal to t, and ends the run exactly when there is
\* no such line or t is -1.  In the goto family the line reached prints its
\* mark and quits, line 5 is the jump itself.
GotoDest(t) ==
    IF t = -1 \/ {n \in GotoLines : n >= t} = {} THEN -1
    ELSE CHOOSE n \in GotoLines : n >= t /\ \A k \in GotoLines : k >= t => n <= k
C5_Original ==
    src.kind = "goto" =>
        LET d == GotoDest(src.p[2])
        IN  /\ last.stmt = "goto" => ln = d
            /\ ~Running =>
                  /\ d # 5
                  /\ IF d = -1 THEN pc = "done" /\ output = ""
                     ELSE pc = "exit" /\ output = GotoMark(d)

\* the address of the byte cell A:i) and of the low byte of the word cell
\* A(i), as a 16-bit unsigned number
ByteAddr(p) == (p[1] + p[2]) % Two16
WordAddr(p) == (p[1] + 2 * p[2]) % Two16
\* the memory holding c at address 50 and the word w at a, a+1, low byte first
WordCells(a, w) ==
    [x \in {50} \cup {y \in {a, a + 1} :
                        (IF y = a THEN w % 256 ELSE (w % Two16) \div 256) # 0} |->
        IF x = 50 THEN 9 ELSE IF x = a THEN w % 256 ELSE (w % Two16) \div 256]

\* C6 (as claimed): whatever the base and the index, a byte or word access
\* completes without abort and touches the cells at (base + index) mod 65536,
\* resp. (base + 2*index) mod 65536 and the next one.
C6_Original ==
    src.kind \in {"byte", "word", "pair"} =>
        /\ pc # "panic"
        /\ ~Running =>
              /\ pc = "done"
              /\ Var("R") = src.p[3]

\* C7: when every address used lies in 0..32766, a byte written with A:i)=v
\* is read back by A:i), a word written with A(i)=w is read back by A(i),
\* the word at offset i is the bytes at offsets 2*i (low) and 2*i+1 (high),
\* written either way, and no other memory cell changes.
C7_ArrayRoundTrip ==
    /\ (src.kind = "byte" /\ ByteAddr(src.p) \in 0..(MaxInt16 - 1) /\ ~Running) =>
          /\ pc = "done"
          /\ Var("R") = src.p[3]
          /\ memory = WordCells(ByteAddr(src.p), src.p[3])
    /\ (src.kind = "word" /\ WordAddr(src.p) \in 0..(MaxInt16 - 2) /\ ~Running) =>
          /\ pc = "done"
          /\ Var("R") = src.p[3]
          /\ Var("L") = src.p[3] % 256
          /\ Var("H") = (src.p[3] % Two16) \div 256
          /\ memory = WordCells(WordAddr(src.p), src.p[3])
    /\ (src.kind = "pair" /\ WordAddr(src.p) \in 0..(MaxInt16 - 2) /\ ~Running) =>
          /\ pc = "done"
          /\ Var("R") = src.p[3]
          /\ memory = WordCells(WordAddr(src.p), src.p[3])
C7_Witness ==
    /\ src.kind = "word" /\ src.p = <<100, 3, 4660>> /\ pc = "done"
    /\ Var("R") = 4660 /\ Var("L") = 52 /\ Var("H") = 18
    /\ memory = (50 :> 9 @@ 106 :> 52 @@ 107 :> 18)

\* the position just after "V=start,bound" in a program of the for family
ForBodyPos(p) == Len("10 V=" \o TermText(p[1]) \o "," \o TermText(p[2]))
\* the state right after the FOR statement of a for-mode-off program
AfterFor == last.stmt = "assign" /\ pos = ForBodyPos(src.p) /\ Var("C") = 0
ForOnce ==
    /\ Var("C") <= 1
    /\ AfterFor =>
          /\ sp = 4
          /\ stack = << IntCell(V("V")), StrCell(src.text),
                        IntCell(ForBodyPos(src.p)), Int16Cell(src.p[2]) >>
    /\ ~Running =>
          /\ pc = "done"
          /\ Var("C") = 1 /\ Var("D") = 1
          /\ Var("V") = src.p[1] + 1
          /\ sp = 0 /\ stack = << >>

\* C8 (as claimed): with for-mode off, V=start,bound ... @=V+1 with
\* start > bound pushes one frame, runs its body exactly once and pops the
\* frame at the loop-step, leaving the stack as before and V = start+1.
C8_Original ==
    (src.kind = "for" /\ src.p[3] = 0 /\ src.p[1] > src.p[2]) => ForOnce

\* C8: the same for a start value less than 32767, the largest 16-bit value
\* (from which the step V+1 wraps to -32768, which is not above the bound).
C8_ForModeOff ==
    (src.kind = "for" /\ src.p[3] = 0 /\ src.p[1] > src.p[2] /\ src.p[1] < MaxInt16)
        => ForOnce
C8_Witness ==
    /\ src.kind = "for" /\ src.p = <<5, 0, 0, 2>> /\ pc = "done"
    /\ Var("C") = 1 /\ Var("V") = 6 /\ sp = 0

\* C9 (as claimed): with for-mode on and start > bound no statement of the
\* body runs, no frame is pushed, the loop's own step expression is
\* evaluated once and the run goes on after it, whatever the body holds.
C9_Original ==
    (src.kind = "for" /\ src.p[3] # 0 /\ src.p[1] > src.p[2]) =>
        /\ sp = 0
        /\ Var("C") = 0
        /\ ~Running => (pc = "done" /\ Var("D") = 1 /\ output = "")

\* C10 (as claimed): RETURN, UNTIL and loop-step on a stack with too few
\* cells print nothing, change no variable, memory cell or stack cell, do
\* not end the run, and the run goes on after the whole statement.
C10_Original ==
    src.kind = "underflow" =>
        /\ \A i \in DOMAIN variables : variables[i] = 0
        /\ DOMAIN memory = {}
        /\ sp = (IF src.p[1] = 4 /\ pos >= 4 THEN 2 ELSE 0)
        /\ ~Running => (pc = "done" /\ output = "xy")

\* C11 (as claimed): a character that is no statement sigil, and a * followed
\* by two letters that name no meta-command, print the syntax-error message
\* with the line number and end the run: nothing after the error executes.
C11_Original ==
    src.kind = "syntax" =>
        /\ Var("B") = 0
        /\ ~Running =>
              (pc = "done" /\ output = "\nSyntaxerror in 10" /\ Var("A") = 1)

\* C12 (as claimed): a line whose number is not followed by a space, an empty
\* line and a line that does not start with a digit execute nothing, and the
\* run goes on with the next line.
C12_Original ==
    (src.kind = "blank" /\ ~Running) => (pc = "done" /\ output = "ab")

\* the decimal number at offset o of text, -1 when there is no digit there
NumberAt(text, o) ==
    IF isDigit(CharAt(text, o))
    THEN DecVal(text, o, SkipWhile(text, o, DigitChars))
    ELSE -1
\* the offset of the line after the one that holds offset o
NextLineAt(text, o) ==
    IF HasChar(text, o, "\n") THEN SkipUntil(text, o, {"\n"}) + 1 ELSE Len(text)
RECURSIVE FirstLineFrom(_, _, _)
\* <<number, offset>> of the first line of text, from offset o on, whose number
\* is at least t; <<-1, -1>> when every line was passed without finding one
FirstLineFrom(text, o, t) ==
    IF o >= Len(text) THEN <<-1, -1>>
    ELSE IF NumberAt(text, o) # -1 /\ NumberAt(text, o) >= t THEN <<NumberAt(text, o), o>>
    ELSE FirstLineFrom(text, NextLineAt(text, o), t)

\* C13 (as claimed): the lookup of t returns the number of the first line, in
\* text order, whose number is >= t, with the cursor at the start of that
\* line, and fails only when every line of the text was passed.
C13_Original ==
    (src.kind = "goto" /\ last.stmt = "goto" /\ src.p[2] # -1) =>
        /\ ln = FirstLineFrom(src.text, 0, src.p[2])[1]
        /\ ln # -1 => (s = src.text /\ pos = FirstLineFrom(src.text, 0, src.p[2])[2])

\* what the programs of the if family print when the rest of the IF line is
\* skipped, and when it runs
IfSkipped == << "n", "", "", "p" >>
IfTaken == << "tn", "t", "t", "pt" >>
\* C14 (as claimed): with a zero condition nothing more of the IF line is
\* dispatched and the run goes on with the next line or ends, whether or not
\* the last line ends with a newline; otherwise the rest of the line runs.
C14_Original ==
    (src.kind = "if" /\ ~Running) =>
        /\ pc = "done"
        /\ IF src.p[1] = 0
           THEN output = IfSkipped[src.p[2]] /\ Var("A") = 0
           ELSE output = IfTaken[src.p[2]] /\ Var("A") = 1

\* the value of the condition DoConds[i] when C = c
CondVal(i, c) ==
    IF i = 1 THEN (IF c >= 1 THEN 1 ELSE 0)
    ELSE IF i = 2 THEN (IF c >= 3 THEN 1 ELSE 0)
    ELSE IF i = 3 THEN c - 1
    ELSE IF i = 4 THEN 1
    ELSE IF i = 5 THEN (IF c = 2 THEN 1 ELSE 0)
    ELSE -1
\* the step is a DO or an UNTIL of a program of the do family
DoStep == src.kind = "do" /\ pc = "stmt" /\ Sigil = "@" /\ last'.stmt = "at"
\* C15: DO pushes the two cells of the cursor just after it; UNTIL pops them
\* and, on a zero condition, puts the cursor back just after the DO and
\* pushes the same two cells again, on a non-zero condition leaves them
\* popped with the cursor after the condition.  So the body runs at least
\* once and again exactly while the condition is 0, and after the loop the
\* stack is what it was before the DO.
C15_DoUntil ==
    /\ [][DoStep =>
            IF CharAt(s, pos + 1) # "="
            THEN /\ stack' = stack \o << StrCell(s), IntCell(pos + 1) >>
                 /\ sp' = sp + 2 /\ s' = s /\ pos' = pos + 1
            ELSE /\ sp >= 2 /\ variables' = variables
                 /\ IF CondVal(src.p[1], Var("C")) = 0
                    THEN /\ stack' = stack /\ sp' = sp
                         /\ s' = stack[sp - 1].str /\ pos' = stack[sp].num
                    ELSE /\ stack' = SubSeq(stack, 1, sp - 2) /\ sp' = sp - 2
                         /\ s' = s /\ pos' = pos + 2 + Len(DoConds[src.p[1]])]_vars
    /\ [](src.kind = "do" =>
            /\ \A j \in 1..(Var("C") - 1) : CondVal(src.p[1], j) = 0
            /\ (pc = "stmt" /\ Sigil = "@" /\ CharAt(s, pos + 1) = "=") =>
                  (stack[sp - 1] = StrCell(src.text) /\ Var("C") >= 1)
            /\ ~Running =>
                  /\ pc = (IF src.p[2] = 2 THEN "exit" ELSE "done")
                  /\ Var("C") >= 1 /\ CondVal(src.p[1], Var("C")) # 0
                  /\ Var("D") = 1 /\ sp = 0 /\ stack = << >> /\ output = "")
C15_Witness ==
    /\ src.kind = "do" /\ src.p = <<2, 3>> /\ last.stmt = "at"
    /\ Var("C") = 2 /\ Var("E") = 2 /\ sp = 2 /\ pos = 4 /\ ln = 20

\* what the programs of the gosub family print, the last line whose number
\* was parsed before the RETURN that matches the GOSUB of line 10, and the
\* offset just after that GOSUB's target
GosubOutput == << "str", "sr", "tsr", "sr" >>
GosubLastLine == << 110, 100, 200, 100 >>
GosubResume == << 8, 7, 8, 13 >>
GosubStep == src.kind = "gosub" /\ pc = "stmt" /\ Sigil = "!" /\ last'.stmt = "gosub"
ReturnStep == src.kind = "gosub" /\ pc = "stmt" /\ Sigil = "]" /\ last'.stmt = "return"
\* C16: GOSUB pushes the cursor just after its target expression; RETURN pops
\* it and changes nothing but the cursor and the stack.  After a subroutine
\* with balanced constructs the run resumes just after the GOSUB's target
\* with the stack as before the GOSUB, and the tracked line number stays that
\* of the subroutine's last line until the next line number is parsed.
C16_GosubReturn ==
    /\ [][GosubStep =>
            /\ stack' = stack \o << StrCell(s), IntCell(SkipUntil(s, pos, {" "})) >>
            /\ sp' = sp + 2]_vars
    /\ [][ReturnStep =>
            /\ sp >= 2
            /\ stack' = SubSeq(stack, 1, sp - 2) /\ sp' = sp - 2
            /\ s' = stack[sp - 1].str /\ pos' = stack[sp].num
            /\ pc' = "stmt"
            /\ UNCHANGED << ln, variables, memory, pbuff, psize, tron, mod,
                            forMode, input, output >>]_vars
    /\ [](src.kind = "gosub" =>
            /\ (last.stmt = "return" /\ sp = 0) =>
                  /\ stack = << >> /\ s = src.text
                  /\ pos = GosubResume[src.p[1]]
                  /\ ln = GosubLastLine[src.p[1]]
            /\ (ln = 20 /\ pc = "stmt") => output = GosubOutput[src.p[1]]
            /\ ~Running =>
                  (pc = "exit" /\ ln = 20 /\ sp = 0 /\ output = GosubOutput[src.p[1]]))
C16_Witness ==
    /\ src.kind = "gosub" /\ src.p = <<3>> /\ last.stmt = "return"
    /\ sp = 0 /\ ln = 200 /\ pos = 8 /\ output = "ts"

\* C17 (as claimed): RETURN, UNTIL and loop-step that meet the frame of
\* another construct pop by cell count and never abort the interpreter.
C17_Original == src.kind = "mismatch" => pc # "panic"

\* the body of a counted loop a..b ran b-a+1 times and the loop is over
CountedRuns ==
    /\ Var("C") <= src.p[2] - src.p[1] + 1
    /\ sp \in {0, 4}
    /\ ~Running =>
          /\ pc = "done"
          /\ Var("C") = src.p[2] - src.p[1] + 1
          /\ Var("V") = src.p[2] + 1
          /\ Var("D") = 1 /\ sp = 0 /\ stack = << >>

\* C18 (as claimed): V=a,b ... @=V+1 with a <= b runs its body b-a+1 times
\* and ends with V = b+1 and the frame popped, for every bound b.
C18_Original == src.kind = "count" => CountedRuns

\* C18: the same for every bound b below 32767, the largest 16-bit value
\* (with b = 32767 the step wraps to -32768 and the loop repeats).
C18_CountedLoop == (src.kind = "count" /\ src.p[2] < MaxInt16) => CountedRuns
C18_Witness ==
    /\ src.kind = "count" /\ src.p = <<32764, 32766>> /\ pc = "done"
    /\ Var("C") = 3 /\ Var("V") = MaxInt16 /\ sp = 0

\* C19 (as claimed): every line lookup returns, with the cursor inside the
\* text, also when the text starts with # and has no newline and when the
\* last line has no newline.
C19_Original ==
    src.kind = "lookup" =>
        /\ pc # "hang"
        /\ last.stmt \in {"main", "goto"} => pos \in 0..Len(s)

\* C20: while the interpreter runs, the stack pointer is the length of the
\* stack and is even, so sp >= 3 is sp >= 4 and a loop-step pop, which reads
\* down to index sp-4, reads no index below 0.
C20_StackPointer ==
    pc # "panic" =>
        /\ sp = Len(stack)
        /\ sp % 2 = 0
        /\ (sp >= 3) <=> (sp >= 4)
C20_Witness ==
    /\ src.kind = "for" /\ sp = 6 /\ Len(stack) = 6 /\ pc = "stmt"
    /\ stack[4].t = "int16" /\ stack[6].t = "int"

====
